---- MODULE Spec2Model ----
(***************************************************************************)
(* Model of budget_automator.py: the column normaliser, the keyword        *)
(* categoriser, the config loader and the run of main() from argument      *)
(* parsing to the summary line.  Text is a sequence of one-character       *)
(* strings, so that lower(), strip() and the substring test are computed.  *)
(* Amounts are integers (cents).                                           *)
(***************************************************************************)
EXTENDS Integers, Sequences, FiniteSets, TLC

VARIABLES
    pc,           \* position of main(): the statement that runs next
    input,        \* argv, the files on disk and the CSV the run reads
    cat_rules,    \* main: cat_rules
    cfg,          \* main: cfg
    currency,     \* main: currency
    df,           \* main: df, [columns, rows]
    totals,       \* main: total_income, total_expense, savings, savings_rate, by_cat, expenses_by_cat
    fs,           \* directories and files this run has created or written
    stdout,       \* lines printed
    stderr,       \* the message of the error that ended the run
    exit_status,  \* "running", 0 or 1
    call,         \* arguments of a direct call of categorize / normalize_columns
    ret           \* its return value

vars == <<pc, input, cat_rules, cfg, currency, df, totals, fs, stdout, stderr, exit_status, call, ret>>

Range(s) == {s[i] : i \in DOMAIN s}

None == "None"

-----------------------------------------------------------------------------
(* str.lower() and str.strip() on ASCII text *)

UpperCase == <<"A","B","C","D","E","F","G","H","I","J","K","L","M",
               "N","O","P","Q","R","S","T","U","V","W","X","Y","Z">>

LowerCase == <<"a","b","c","d","e","f","g","h","i","j","k","l","m",
               "n","o","p","q","r","s","t","u","v","w","x","y","z">>

LowerChar(c) ==
    IF \E i \in DOMAIN UpperCase : UpperCase[i] = c
    THEN LowerCase[CHOOSE i \in DOMAIN UpperCase : UpperCase[i] = c]
    ELSE c

Lower(s) == [i \in 1..Len(s) |-> LowerChar(s[i])]

IsSpace(c) == c \in {" ", "\t"}

RECURSIVE LStrip(_)
LStrip(s) == IF s # <<>> /\ IsSpace(Head(s)) THEN LStrip(Tail(s)) ELSE s

RECURSIVE RStrip(_)
RStrip(s) ==
    IF s # <<>> /\ IsSpace(s[Len(s)]) THEN RStrip(SubSeq(s, 1, Len(s) - 1)) ELSE s

Strip(s) == RStrip(LStrip(s))

\* Python's `kw in d` for strings: kw occurs in d as a contiguous substring
Contains(kw, d) ==
    \E i \in 0..(Len(d) - Len(kw)) : SubSeq(d, i + 1, i + Len(kw)) = kw

-----------------------------------------------------------------------------
(* normalize_columns *)

s_date == <<"d","a","t","e">>
s_description == <<"d","e","s","c","r","i","p","t","i","o","n">>
s_amount == <<"a","m","o","u","n","t">>

need == {s_date, s_description, s_amount}

\* the alias dict: <<key, value>>
alias == {
    << <<"p","o","s","t","e","d"," ","d","a","t","e">>, s_date >>,
    << <<"t","r","a","n","s","a","c","t","i","o","n"," ","d","a","t","e">>, s_date >>,
    << <<"d","e","t","a","i","l","s">>, s_description >>,
    << <<"m","e","m","o">>, s_description >>,
    << <<"a","m","o","u","n","t"," ","(","u","s","d",")">>, s_amount >>,
    << <<"d","e","b","i","t">>, s_amount >>,
    << <<"c","r","e","d","i","t">>, s_amount >> }

\* the new name of a column whose lowercased, trimmed name is c_low
mapping(c_low) ==
    IF c_low \in need THEN c_low
    ELSE IF \E a \in alias : a[1] = c_low
         THEN (CHOOSE a \in alias : a[1] = c_low)[2]
         ELSE c_low

\* df.columns after df.rename(columns=mapping)
Renamed(columns) == [i \in 1..Len(columns) |-> mapping(Strip(Lower(columns[i])))]

\* positions of the columns labelled `name`, in column order
RECURSIVE Positions(_, _, _)
Positions(columns, name, i) ==
    IF i > Len(columns) THEN <<>>
    ELSE (IF columns[i] = name THEN <<i>> ELSE <<>>) \o Positions(columns, name, i + 1)

\* df[["date","description","amount"]]: for each requested label, every column
\* that carries it (pandas returns all of them when labels repeat)
SelectColumns(columns) ==
    Positions(columns, s_date, 1) \o Positions(columns, s_description, 1)
        \o Positions(columns, s_amount, 1)

\* ok = FALSE is SystemExit("CSV must include ...")
normalize_columns(columns) ==
    LET renamed == Renamed(columns)
        picked == SelectColumns(renamed)
    IN  IF ~(need \subseteq Range(renamed))
        THEN [ok |-> FALSE, columns |-> <<>>, source |-> <<>>]
        ELSE [ok |-> TRUE,
              columns |-> [i \in 1..Len(picked) |-> renamed[picked[i]]],
              source |-> picked]

-----------------------------------------------------------------------------
(* categorize: rules is the ordered mapping category -> keyword list, as the *)
(* sequence of its items in declaration order                                *)

\* for kw in keywords: if kw in d
RECURSIVE AnyKeywordIn(_, _, _)
AnyKeywordIn(keywords, d, j) ==
    IF j > Len(keywords) THEN FALSE
    ELSE IF Contains(keywords[j], d) THEN TRUE
    ELSE AnyKeywordIn(keywords, d, j + 1)

\* for cat, keywords in rules.items()
RECURSIVE ScanRules(_, _, _)
ScanRules(rules, d, i) ==
    IF i > Len(rules) THEN "uncategorized"
    ELSE IF AnyKeywordIn(rules[i].keywords, d, 1) THEN rules[i].cat
    ELSE ScanRules(rules, d, i + 1)

\* categorize without desc.lower()
categorize_CaseSensitive(desc, rules) == ScanRules(rules, desc, 1)

categorize(desc, rules) == ScanRules(rules, Lower(desc), 1)

-----------------------------------------------------------------------------
(* load_yaml and the two embedded default documents *)

\* a path on disk: whether os.path.exists(path), whether yaml.safe_load gives None
\* (an empty document), and otherwise the mapping it gives
Absent == [exists |-> FALSE, null |-> FALSE, doc |-> <<>>]
EmptyDoc == [exists |-> TRUE, null |-> TRUE, doc |-> <<>>]
Yaml(doc) == [exists |-> TRUE, null |-> FALSE, doc |-> doc]

default_categories == <<
    [cat |-> "groceries", keywords |-> <<
        <<"k","r","o","g","e","r">>,
        <<"w","h","o","l","e"," ","f","o","o","d","s">>,
        <<"t","r","a","d","e","r"," ","j","o","e">>,
        <<"w","a","l","m","a","r","t">>,
        <<"c","o","s","t","c","o">> >>],
    [cat |-> "dining", keywords |-> <<
        <<"m","c","d","o","n","a","l","d">>,
        <<"c","h","i","p","o","t","l","e">>,
        <<"s","t","a","r","b","u","c","k","s">>,
        <<"t","a","c","o"," ","b","e","l","l">>,
        <<"p","i","z","z","a">>,
        <<"p","a","n","e","r","a">> >>],
    [cat |-> "transport", keywords |-> <<
        <<"u","b","e","r">>,
        <<"l","y","f","t">>,
        <<"s","h","e","l","l">>,
        <<"e","x","x","o","n">>,
        <<"c","h","e","v","r","o","n">>,
        <<"m","o","b","i","l">>,
        <<"g","a","s">> >>],
    [cat |-> "shopping", keywords |-> <<
        <<"a","m","a","z","o","n">>,
        <<"t","a","r","g","e","t">>,
        <<"b","e","s","t"," ","b","u","y">>,
        <<"n","i","k","e">>,
        <<"a","d","i","d","a","s">> >>],
    [cat |-> "subscriptions", keywords |-> <<
        <<"n","e","t","f","l","i","x">>,
        <<"s","p","o","t","i","f","y">>,
        <<"a","p","p","l","e">>,
        <<"g","o","o","g","l","e"," ","s","t","o","r","a","g","e">>,
        <<"p","r","i","m","e">> >>],
    [cat |-> "utilities", keywords |-> <<
        <<"v","e","r","i","z","o","n">>,
        <<"x","f","i","n","i","t","y">>,
        <<"c","o","m","c","a","s","t">>,
        <<"a","t","&","t">>,
        <<"t","-","m","o","b","i","l","e">>,
        <<"s","p","e","c","t","r","u","m">> >>],
    [cat |-> "health", keywords |-> <<
        <<"c","v","s">>,
        <<"w","a","l","g","r","e","e","n","s">>,
        <<"r","i","t","e"," ","a","i","d">>,
        <<"w","a","l","g","r","e","e","n","s">> >>],
    [cat |-> "education", keywords |-> <<
        <<"u","d","e","m","y">>,
        <<"c","o","u","r","s","e","r","a">>,
        <<"k","h","a","n"," ","a","c","a","d","e","m","y">> >>],
    [cat |-> "income", keywords |-> <<
        <<"p","a","y","r","o","l","l">>,
        <<"p","a","y","c","h","e","c","k">>,
        <<"d","i","r","e","c","t"," ","d","e","p","o","s","i","t">>,
        <<"e","m","p","l","o","y","e","r">> >>] >>

default_config ==
    [currency |-> "USD",
     income_keywords |-> <<"payroll", "paycheck", "employer", "direct deposit">>]

\* load_yaml filling the keys a present file lacks from the default document
load_yaml_Merged(files, path, default_doc) ==
    IF files[path].exists
    THEN LET d == IF files[path].null THEN <<>> ELSE files[path].doc
         IN  [k \in DOMAIN d \cup DOMAIN default_doc |->
                IF k \in DOMAIN d THEN d[k] ELSE default_doc[k]]
    ELSE default_doc

\* `yaml.safe_load(f) or {}` when the path exists, the parsed default text otherwise
load_yaml(files, path, default_doc) ==
    IF files[path].exists
    THEN (IF files[path].null THEN <<>> ELSE files[path].doc)
    ELSE default_doc

\* cfg.get("currency", "USD")
GetCurrency(c) == IF "currency" \in DOMAIN c THEN c["currency"] ELSE "USD"

-----------------------------------------------------------------------------
(* The state of a run of main() before its first statement, and the state *)
(* of the run's variables while a function is called on its own           *)

NoFile == [written |-> FALSE, path |-> "", content |-> <<>>]

File(p, c) == [written |-> TRUE, path |-> p, content |-> c]

NoFiles ==
    [dirs |-> {}, transactions |-> NoFile, category_expenses |-> NoFile,
     report |-> NoFile, plot |-> NoFile]

NoTotals ==
    [total_income |-> 0, total_expense |-> 0, savings |-> 0,
     savings_rate |-> [num |-> 0, den |-> 1], by_cat |-> <<>>, expenses_by_cat |-> <<>>]

NoInput ==
    [month |-> None, invert |-> FALSE,
     files |-> [categories |-> Absent, config |-> Absent],
     csv |-> [columns |-> <<>>, rows |-> <<>>]]

Fresh ==
    /\ cat_rules = <<>>
    /\ cfg = <<>>
    /\ currency = ""
    /\ df = [columns |-> <<>>, rows |-> <<>>]
    /\ totals = NoTotals
    /\ fs = NoFiles
    /\ stdout = <<>>
    /\ stderr = ""
    /\ exit_status = "running"

NoCall == [fn |-> "none"]

Pending == [done |-> FALSE]

Returned(v) == [done |-> TRUE, value |-> v]

run_vars == <<pc, input, cat_rules, cfg, currency, df, totals, fs, stdout, stderr, exit_status>>

-----------------------------------------------------------------------------
(* categorize called on its own, on every description of up to MaxDescLen *)
(* characters and every rule set of RuleSets                              *)

MaxDescLen == 3

Alphabet == {"a", "A", "b"}

Descriptions == UNION {[1..n -> Alphabet] : n \in 0..MaxDescLen}

KeywordLists ==
    { <<>>,
      << <<"a">> >>,
      << <<"b">> >>,
      << <<"a","b">> >>,
      << <<"b","a">>, <<"b","b">> >>,
      << <<"A">> >>,
      << <<"a","a","b">>, <<"b","a","b">> >>,
      << <<"b","b">>, <<"a">> >> }

Labels == {"groceries", "dining"}

Rule(c, k) == [cat |-> c, keywords |-> k]

\* ordered mappings: no label twice
RuleSets ==
    {<<>>}
    \cup {<<Rule(c, k)>> : c \in Labels, k \in KeywordLists}
    \cup {<<Rule(c1, k1), Rule(c2, k2)>> :
            <<c1, c2>> \in {p \in Labels \X Labels : p[1] # p[2]},
            <<k1, k2>> \in KeywordLists \X KeywordLists}

InitCategorize ==
    /\ pc = "idle"
    /\ input = NoInput
    /\ Fresh
    /\ call \in {[fn |-> "categorize", desc |-> d, rules |-> r] :
                    d \in Descriptions, r \in RuleSets}
    /\ ret = Pending

CallCategorize ==
    /\ call.fn = "categorize"
    /\ ~ret.done
    /\ ret' = Returned(categorize(call.desc, call.rules))
    /\ UNCHANGED <<run_vars, call>>

NextCategorize == CallCategorize

SpecCategorize == InitCategorize /\ [][NextCategorize]_vars

\* the rules of call.rules that have a keyword occurring in the lowercased description
Matching == {i \in DOMAIN call.rules :
                \E j \in DOMAIN call.rules[i].keywords :
                    Contains(call.rules[i].keywords[j], Lower(call.desc))}

Least(S) == CHOOSE i \in S : \A j \in S : i <= j

-----------------------------------------------------------------------------
(* normalize_columns called on its own, on every header of up to MaxCols *)
(* distinct column names of ColumnNames                                   *)

MaxCols == 4

ColumnNames == {
    <<"D","a","t","e">>,
    <<" ","D","A","T","E"," ">>,
    <<"P","o","s","t","e","d"," ","D","a","t","e">>,
    <<"T","r","a","n","s","a","c","t","i","o","n"," ","D","a","t","e">>,
    <<"D","e","s","c","r","i","p","t","i","o","n">>,
    <<"D","e","t","a","i","l","s">>,
    <<"M","e","m","o">>,
    <<"A","m","o","u","n","t">>,
    <<"A","m","o","u","n","t"," ","(","U","S","D",")">>,
    <<"D","e","b","i","t">>,
    <<"C","r","e","d","i","t">>,
    <<"B","a","l","a","n","c","e">> }

Headers ==
    UNION {{h \in [1..n -> ColumnNames] : \A i, j \in 1..n : i # j => h[i] # h[j]} :
              n \in 0..MaxCols}

InitNormalize ==
    /\ pc = "idle"
    /\ input = NoInput
    /\ Fresh
    /\ call \in {[fn |-> "normalize_columns", columns |-> h] : h \in Headers}
    /\ ret = Pending

CallNormalize ==
    /\ call.fn = "normalize_columns"
    /\ ~ret.done
    /\ ret' = Returned(normalize_columns(call.columns))
    /\ UNCHANGED <<run_vars, call>>

NextNormalize == CallNormalize

SpecNormalize == InitNormalize /\ [][NextNormalize]_vars

\* the canonical names the header's columns map to cover date, description, amount
Covers(columns) == need \subseteq Range(Renamed(columns))

\* C2: for every header that covers date, description and amount after lowercasing,
\* trimming and synonym mapping, normalize_columns returns without error a table
\* with exactly the three columns date, description, amount, in that order
C2_ExactlyThreeColumns ==
    (ret.done /\ Covers(call.columns)) =>
        /\ ret.value.ok
        /\ ret.value.columns = <<s_date, s_description, s_amount>>

-----------------------------------------------------------------------------
(* Cell values: what pd.to_datetime and pd.to_numeric (errors="coerce") make of *)
(* a cell, dates as year/month/day, amounts as integers,                        *)
(* NaT and NaN as flagged values                                               *)

DateCell(y, m, d) == [kind |-> "date", y |-> y, m |-> m, d |-> d, v |-> 0]
TextCell == [kind |-> "text", y |-> 0, m |-> 0, d |-> 0, v |-> 0]
MissingCell == [kind |-> "missing", y |-> 0, m |-> 0, d |-> 0, v |-> 0]
NumCell(n) == [kind |-> "num", y |-> 0, m |-> 0, d |-> 0, v |-> n]

NaT == [nat |-> TRUE, y |-> 0, m |-> 0, d |-> 0]
NaN == [nan |-> TRUE, v |-> 0]

to_datetime(cell) ==
    IF cell.kind = "date" THEN [nat |-> FALSE, y |-> cell.y, m |-> cell.m, d |-> cell.d]
    ELSE NaT

to_numeric(cell) == IF cell.kind = "num" THEN [nan |-> FALSE, v |-> cell.v] ELSE NaN

\* -df["amount"]
Negate(x) == IF x.nan THEN x ELSE [nan |-> FALSE, v |-> 0 - x.v]

\* df["date"].isna().any()
AnyNaT(rows) == \E i \in DOMAIN rows : rows[i].date.nat

\* df["amount"].isna().all()
AnyNaN_All(rows) == rows # <<>> /\ \A i \in DOMAIN rows : rows[i].amount.nan

\* df["amount"].isna().any()
AnyNaN(rows) == \E i \in DOMAIN rows : rows[i].amount.nan

\* the type with x >= 0 as income
TypeOf_ZeroIsIncome(x) ==
    IF ~x.nan /\ x.v >= 0 THEN "income"
    ELSE IF ~x.nan /\ x.v < 0 THEN "expense"
    ELSE "neutral"

\* lambda x: "income" if x > 0 else "expense" if x < 0 else "neutral"
TypeOf(x) ==
    IF ~x.nan /\ x.v > 0 THEN "income"
    ELSE IF ~x.nan /\ x.v < 0 THEN "expense"
    ELSE "neutral"

\* Timestamp.strftime("%Y-%m")
FormatYM(ts) == ToString(ts.y) \o "-" \o (IF ts.m < 10 THEN "0" ELSE "") \o ToString(ts.m)

\* truth value of args.month
Truthy(month) == month # None /\ month # ""

\* month_filter that computes the mask and returns the table unfiltered
month_filter_Unfiltered(rows, month) == rows

month_filter(rows, month) ==
    IF ~Truthy(month) THEN rows
    ELSE SelectSeq(rows, LAMBDA r : FormatYM(r.date) = month)

\* args.month or "ALL"
MonthTag(month) == IF Truthy(month) THEN month ELSE "ALL"

\* number of columns of df labelled `name`: df[name] is a Series only when it is 1
Count(columns, name) == Len(Positions(columns, name, 1))

-----------------------------------------------------------------------------
(* Aggregations *)

\* df.loc[df["type"] == t, "amount"].sum()
RECURSIVE SumOfType(_, _, _)
SumOfType(rows, t, i) ==
    IF i > Len(rows) THEN 0
    ELSE (IF rows[i].type = t THEN rows[i].amount.v ELSE 0) + SumOfType(rows, t, i + 1)

\* the rate without the income > 0 guard
SavingsRate_Unguarded(savings, total_income) ==
    [num |-> savings * 100, den |-> total_income]

\* (savings / total_income * 100) if total_income > 0 else 0.0, as a fraction
SavingsRate(savings, total_income) ==
    IF total_income > 0 THEN [num |-> savings * 100, den |-> total_income]
    ELSE [num |-> 0, den |-> 1]

RECURSIVE SumOfCategory(_, _, _)
SumOfCategory(rows, c, i) ==
    IF i > Len(rows) THEN 0
    ELSE (IF rows[i].category = c THEN rows[i].amount.v ELSE 0)
            + SumOfCategory(rows, c, i + 1)

\* rows.groupby("category")["amount"].sum(): one entry per category that occurs
GroupSum(rows) ==
    [c \in {rows[i].category : i \in DOMAIN rows} |-> SumOfCategory(rows, c, 1)]

\* the expense table grouped over every row
ExpenseRows_AllRows(rows) == rows

\* df[df["type"] == "expense"]
ExpenseRows(rows) == SelectSeq(rows, LAMBDA r : r.type = "expense")

\* -(...groupby("category")["amount"].sum())
ExpenseGroupSum(rows) ==
    LET g == GroupSum(ExpenseRows(rows)) IN [c \in DOMAIN g |-> 0 - g[c]]

Entry(g, c) == [category |-> c, amount |-> g[c]]

\* Series.sort_values(): the entries in ascending order, equal values in any order
SortValues(g) ==
    LET n == Cardinality(DOMAIN g)
    IN  {[i \in 1..n |-> Entry(g, s[i])] :
            s \in {t \in [1..n -> DOMAIN g] :
                    /\ \A i, j \in 1..n : i # j => t[i] # t[j]
                    /\ \A i, j \in 1..n : i < j => g[t[i]] <= g[t[j]]}}

\* Series.sort_values(ascending=False) of a sorted series
SortValuesDescending(series) ==
    LET n == Len(series)
    IN  {[i \in 1..n |-> series[p[i]]] :
            p \in {q \in [1..n -> 1..n] :
                    /\ \A i, j \in 1..n : i # j => q[i] # q[j]
                    /\ \A i, j \in 1..n :
                          i < j => series[q[i]].amount >= series[q[j]].amount}}

TopN == 10

\* Series.head(10)
HeadN(series) == SubSeq(series, 1, IF Len(series) < TopN THEN Len(series) ELSE TopN)

-----------------------------------------------------------------------------
(* The inputs of a run: argv, the two YAML files and the CSV.  A CSV is its   *)
(* header and, for each row, the cells under the date, description and amount *)
(* columns.                                                                   *)

MaxRows == 2

Months == {None, "2024-01", "2024-1"}

CustomRules == <<
    [cat |-> "coffee", keywords |-> << <<"s","t","a","r","b","u","c","k","s">> >>],
    [cat |-> "income", keywords |-> << <<"p","a","y","r","o","l","l">> >>],
    [cat |-> "food", keywords |-> << <<"k","r","o","g","e","r">>, <<"p","i","z","z","a">> >>] >>

CategoryFiles == {Absent, EmptyDoc, Yaml(CustomRules)}

ConfigFiles ==
    { Absent,
      Yaml([currency |-> "EUR", income_keywords |-> <<"salary">>]),
      Yaml([income_keywords |-> <<"salary">>]) }

\* a header with synonyms and a column the run does not use
CsvHeader == << <<"P","o","s","t","e","d"," ","D","a","t","e">>, <<"M","e","m","o">>, <<"D","e","b","i","t">>, <<"B","a","l","a","n","c","e">> >>

\* headers under which the run ends before it looks at more than the first row:
\* the canonical names (kept to one row), two columns that both map to amount,
\* and no description column
ShortHeaders == {
    << <<"D","a","t","e">>, <<"D","e","s","c","r","i","p","t","i","o","n">>, <<"A","m","o","u","n","t">> >>,
    << <<"D","a","t","e">>, <<"D","e","s","c","r","i","p","t","i","o","n">>, <<"D","e","b","i","t">>, <<"C","r","e","d","i","t">> >>,
    << <<"D","a","t","e">>, <<"B","a","l","a","n","c","e">>, <<"A","m","o","u","n","t">> >> }

CsvRow(dt, desc, amt) == [date |-> dt, description |-> desc, amount |-> amt]

RowPool == {
    CsvRow(DateCell(2024, 1, 5), <<"K","R","O","G","E","R"," ","#","1","2","3">>, NumCell(-5000)),
    CsvRow(DateCell(2024, 1, 10), <<"P","A","Y","R","O","L","L">>, NumCell(200000)),
    CsvRow(DateCell(2024, 1, 15), <<"S","t","a","r","b","u","c","k","s">>, NumCell(-1200)),
    CsvRow(DateCell(2024, 1, 20), <<"K","r","o","g","e","r"," ","r","e","f","u","n","d">>, NumCell(700)),
    CsvRow(DateCell(2024, 2, 10), <<" ","P","i","z","z","a"," ","a","t"," ","K","r","o","g","e","r"," ">>, NumCell(-1200)),
    CsvRow(DateCell(2023, 1, 7), <<"T","r","a","n","s","f","e","r">>, NumCell(0)),
    CsvRow(TextCell, <<"K","R","O","G","E","R"," ","#","1","2","3">>, NumCell(-300)),
    CsvRow(DateCell(2024, 2, 11), <<"P","A","Y","R","O","L","L">>, TextCell),
    CsvRow(DateCell(2024, 2, 12), <<"S","t","a","r","b","u","c","k","s">>, MissingCell) }

CsvTables ==
    {[columns |-> CsvHeader, rows |-> r] : r \in UNION {[1..n -> RowPool] : n \in 0..MaxRows}}
    \cup {[columns |-> h, rows |-> r] :
            h \in ShortHeaders, r \in UNION {[1..n -> RowPool] : n \in 0..1}}

Inputs ==
    {[month |-> m, invert |-> v, files |-> [categories |-> cf, config |-> gf], csv |-> t] :
        m \in Months, v \in BOOLEAN, cf \in CategoryFiles, gf \in ConfigFiles,
        t \in CsvTables}

Init ==
    /\ pc = "load_configs"
    /\ input \in Inputs
    /\ Fresh
    /\ call = NoCall
    /\ ret = Pending

-----------------------------------------------------------------------------
(* main(), one action per stage *)

\* raise SystemExit(message): status 1, the message on stderr
SystemExit(message) ==
    /\ pc' = "exited"
    /\ exit_status' = "1"
    /\ stderr' = message

\* an exception no handler catches (a DataFrame where a Series is needed)
Uncaught(exception) == SystemExit(exception)

\* cat_rules = load_yaml(...); cfg = load_yaml(...); currency = cfg.get("currency", "USD")
LoadConfigs ==
    /\ pc = "load_configs"
    /\ cat_rules' = load_yaml(input.files, "categories", default_categories)
    /\ cfg' = load_yaml(input.files, "config", default_config)
    /\ currency' = GetCurrency(cfg')
    /\ pc' = "read_csv"
    /\ UNCHANGED <<input, df, totals, fs, stdout, stderr, exit_status, call, ret>>

\* df = pd.read_csv(args.csv_path); df = normalize_columns(df)
ReadCsv ==
    /\ pc = "read_csv"
    /\ LET n == normalize_columns(input.csv.columns)
       IN  IF ~n.ok
           THEN /\ SystemExit("CSV must include date, description, amount columns (case-insensitive).")
                /\ UNCHANGED df
           ELSE /\ df' = [columns |-> n.columns, rows |-> input.csv.rows]
                /\ pc' = "parse_dates"
                /\ UNCHANGED <<exit_status, stderr>>
    /\ UNCHANGED <<input, cat_rules, cfg, currency, totals, fs, stdout, call, ret>>

\* df["date"] = pd.to_datetime(df["date"], errors="coerce"); isna check
ParseDates ==
    /\ pc = "parse_dates"
    /\ IF Count(df.columns, s_date) # 1
       THEN /\ Uncaught("ValueError")
            /\ UNCHANGED df
       ELSE LET rows == [i \in DOMAIN df.rows |->
                            [df.rows[i] EXCEPT !.date = to_datetime(@)]]
            IN  /\ df' = [df EXCEPT !.rows = rows]
                /\ IF AnyNaT(rows)
                   THEN SystemExit("Some dates could not be parsed. Please ensure 'date' column is valid.")
                   ELSE /\ pc' = "clean_description"
                        /\ UNCHANGED <<exit_status, stderr>>
    /\ UNCHANGED <<input, cat_rules, cfg, currency, totals, fs, stdout, call, ret>>

\* df["description"] = df["description"].astype(str).str.strip()
CleanDescription ==
    /\ pc = "clean_description"
    /\ IF Count(df.columns, s_description) # 1
       THEN /\ Uncaught("AttributeError")
            /\ UNCHANGED df
       ELSE /\ df' = [df EXCEPT !.rows =
                        [i \in DOMAIN df.rows |->
                            [df.rows[i] EXCEPT !.description = Strip(@)]]]
            /\ pc' = "parse_amounts"
            /\ UNCHANGED <<exit_status, stderr>>
    /\ UNCHANGED <<input, cat_rules, cfg, currency, totals, fs, stdout, call, ret>>

\* df["amount"] = pd.to_numeric(df["amount"], errors="coerce"); isna check; --invert
ParseAmounts ==
    /\ pc = "parse_amounts"
    /\ IF Count(df.columns, s_amount) # 1
       THEN /\ Uncaught("TypeError")
            /\ UNCHANGED df
       ELSE LET rows == [i \in DOMAIN df.rows |->
                            [df.rows[i] EXCEPT !.amount = to_numeric(@)]]
            IN  IF AnyNaN(rows)
                THEN /\ df' = [df EXCEPT !.rows = rows]
                     /\ SystemExit("Some amounts could not be parsed as numbers.")
                ELSE /\ df' = [df EXCEPT !.rows =
                                 IF input.invert
                                 THEN [i \in DOMAIN rows |->
                                         [rows[i] EXCEPT !.amount = Negate(@)]]
                                 ELSE rows]
                     /\ pc' = "categorize"
                     /\ UNCHANGED <<exit_status, stderr>>
    /\ UNCHANGED <<input, cat_rules, cfg, currency, totals, fs, stdout, call, ret>>

\* the row with its category and type columns
Labelled(r, rules) ==
    [date |-> r.date, description |-> r.description, amount |-> r.amount,
     category |-> categorize(r.description, rules), type |-> TypeOf(r.amount)]

\* df["category"] = ...apply(categorize); df["type"] = ...apply(sign)
Categorize ==
    /\ pc = "categorize"
    /\ df' = [columns |-> df.columns \o <<"category", "type">>,
              rows |-> [i \in DOMAIN df.rows |-> Labelled(df.rows[i], cat_rules)]]
    /\ pc' = "month_filter"
    /\ UNCHANGED <<input, cat_rules, cfg, currency, totals, fs, stdout, stderr,
                   exit_status, call, ret>>

\* the month filter with the output directories created before the empty check
MonthFilter_AfterMakeDirs ==
    /\ pc = "month_filter"
    /\ IF Truthy(input.month)
       THEN LET rows == month_filter(df.rows, input.month)
            IN  /\ df' = [df EXCEPT !.rows = rows]
                /\ fs' = [fs EXCEPT !.dirs = @ \cup {"outputs", "plots"}]
                /\ IF rows = <<>>
                   THEN SystemExit("No transactions found for " \o input.month \o ".")
                   ELSE /\ pc' = "aggregate"
                        /\ UNCHANGED <<exit_status, stderr>>
       ELSE /\ pc' = "aggregate"
            /\ UNCHANGED <<df, fs, exit_status, stderr>>
    /\ UNCHANGED <<input, cat_rules, cfg, currency, totals, stdout, call, ret>>

\* if args.month: df = month_filter(df, args.month); if df.empty: raise SystemExit
MonthFilter ==
    /\ pc = "month_filter"
    /\ IF Truthy(input.month)
       THEN LET rows == month_filter(df.rows, input.month)
            IN  /\ df' = [df EXCEPT !.rows = rows]
                /\ IF rows = <<>>
                   THEN SystemExit("No transactions found for " \o input.month \o ".")
                   ELSE /\ pc' = "aggregate"
                        /\ UNCHANGED <<exit_status, stderr>>
       ELSE /\ pc' = "aggregate"
            /\ UNCHANGED <<df, exit_status, stderr>>
    /\ UNCHANGED <<input, cat_rules, cfg, currency, totals, fs, stdout, call, ret>>

\* total_income ... expenses_by_cat
Aggregate ==
    /\ pc = "aggregate"
    /\ LET total_income == SumOfType(df.rows, "income", 1)
           total_expense == 0 - SumOfType(df.rows, "expense", 1)
           savings == total_income - total_expense
       IN  \E by_cat \in SortValues(GroupSum(df.rows)),
              expenses_by_cat \in SortValues(ExpenseGroupSum(df.rows)) :
                totals' = [total_income |-> total_income,
                           total_expense |-> total_expense,
                           savings |-> savings,
                           savings_rate |-> SavingsRate(savings, total_income),
                           by_cat |-> by_cat,
                           expenses_by_cat |-> expenses_by_cat]
    /\ pc' = "make_dirs"
    /\ UNCHANGED <<input, cat_rules, cfg, currency, df, fs, stdout, stderr,
                   exit_status, call, ret>>

\* os.makedirs("outputs", exist_ok=True); os.makedirs("plots", exist_ok=True)
MakeDirs ==
    /\ pc = "make_dirs"
    /\ fs' = [fs EXCEPT !.dirs = @ \cup {"outputs", "plots"}]
    /\ pc' = "write_tables"
    /\ UNCHANGED <<input, cat_rules, cfg, currency, df, totals, stdout, stderr,
                   exit_status, call, ret>>

\* df.to_csv(...); expenses_by_cat.to_csv(..., header=["amount"])
WriteTables ==
    /\ pc = "write_tables"
    /\ LET month_tag == MonthTag(input.month)
       IN  fs' = [fs EXCEPT
                    !.transactions =
                        File("outputs/transactions_" \o month_tag \o ".csv", df),
                    !.category_expenses =
                        File("outputs/category_expenses_" \o month_tag \o ".csv",
                             totals.expenses_by_cat)]
    /\ pc' = "write_report"
    /\ UNCHANGED <<input, cat_rules, cfg, currency, df, totals, stdout, stderr,
                   exit_status, call, ret>>

\* md = [...]; open(...).write("\n".join(md))
WriteReport ==
    /\ pc = "write_report"
    /\ LET month_tag == MonthTag(input.month)
       IN  \E ranked \in SortValuesDescending(totals.expenses_by_cat) :
              fs' = [fs EXCEPT !.report =
                        File("outputs/monthly_report_" \o month_tag \o ".md",
                             [title |-> "# Monthly Report - " \o month_tag,
                              currency |-> currency,
                              income |-> totals.total_income,
                              expenses |-> totals.total_expense,
                              savings |-> totals.savings,
                              savings_rate |-> totals.savings_rate,
                              top |-> HeadN(ranked)])]
    /\ pc' = "plot"
    /\ UNCHANGED <<input, cat_rules, cfg, currency, df, totals, stdout, stderr,
                   exit_status, call, ret>>

\* the chart written whether or not there is an expense category
Plot_Unconditional ==
    /\ pc = "plot"
    /\ fs' = [fs EXCEPT !.plot =
                 File("plots/expenses_by_category_" \o MonthTag(input.month) \o ".png",
                      [title |-> "Expenses by Category - " \o MonthTag(input.month),
                       xlabel |-> "Amount (" \o currency \o ")",
                       bars |-> totals.expenses_by_cat])]
    /\ pc' = "print_summary"
    /\ UNCHANGED <<input, cat_rules, cfg, currency, df, totals, stdout, stderr,
                   exit_status, call, ret>>

\* if len(expenses_by_cat) > 0: ... plt.savefig(plot_path, dpi=160)
Plot ==
    /\ pc = "plot"
    /\ LET month_tag == MonthTag(input.month)
       IN  IF Len(totals.expenses_by_cat) > 0
           THEN fs' = [fs EXCEPT !.plot =
                          File("plots/expenses_by_category_" \o month_tag \o ".png",
                               [title |-> "Expenses by Category - " \o month_tag,
                                xlabel |-> "Amount (" \o currency \o ")",
                                bars |-> totals.expenses_by_cat])]
           ELSE UNCHANGED fs
    /\ pc' = "print_summary"
    /\ UNCHANGED <<input, cat_rules, cfg, currency, df, totals, stdout, stderr,
                   exit_status, call, ret>>

\* print("Done. ..."); print("Wrote ..."); main returns
PrintSummary ==
    /\ pc = "print_summary"
    /\ stdout' = << [line |-> "Done.",
                     income |-> totals.total_income,
                     expenses |-> totals.total_expense,
                     savings_rate |-> totals.savings_rate],
                    "Wrote outputs/monthly_report_" \o MonthTag(input.month)
                        \o ".md and CSV/plot files." >>
    /\ pc' = "exited"
    /\ exit_status' = "0"
    /\ UNCHANGED <<input, cat_rules, cfg, currency, df, totals, fs, stderr, call, ret>>

Next ==
    \/ LoadConfigs
    \/ ReadCsv
    \/ ParseDates
    \/ CleanDescription
    \/ ParseAmounts
    \/ Categorize
    \/ MonthFilter
    \/ Aggregate
    \/ MakeDirs
    \/ WriteTables
    \/ WriteReport
    \/ Plot
    \/ PrintSummary

Spec == Init /\ [][Next]_vars

-----------------------------------------------------------------------------
(* Properties of a run *)

\* the stages after df has its category and type columns
AfterCategorize ==
    \/ pc \in {"month_filter", "aggregate", "make_dirs", "write_tables",
               "write_report", "plot", "print_summary"}
    \/ exit_status = "0"
    \/ (pc = "exited" /\ Truthy(input.month)
            /\ stderr = "No transactions found for " \o input.month \o ".")

\* the stages after the totals are computed
AfterAggregate ==
    \/ pc \in {"make_dirs", "write_tables", "write_report", "plot", "print_summary"}
    \/ exit_status = "0"

RECURSIVE SetSum(_, _)
SetSum(S, f) ==
    IF S = {} THEN 0
    ELSE LET x == CHOOSE x \in S : TRUE IN f[x] + SetSum(S \ {x}, f)

\* the amount of CSV row i after the optional --invert negation
Signed ==
    [i \in DOMAIN input.csv.rows |->
        IF input.invert THEN 0 - input.csv.rows[i].amount.v ELSE input.csv.rows[i].amount.v]

\* the calendar month a --month value names
CalendarMonth(month) ==
    CASE month = "2024-01" -> [y |-> 2024, m |-> 1]
      [] month = "2024-1" -> [y |-> 2024, m |-> 1]

\* the CSV rows whose date falls in the --month month; all rows without --month
Retained ==
    {i \in DOMAIN input.csv.rows :
        \/ input.month = None
        \/ /\ input.month # None
           /\ input.csv.rows[i].date.y = CalendarMonth(input.month).y
           /\ input.csv.rows[i].date.m = CalendarMonth(input.month).m}

DefectiveRow(r) == r.date.kind # "date" \/ r.amount.kind # "num"

Defective == \E i \in DOMAIN input.csv.rows : DefectiveRow(input.csv.rows[i])

\* C3: a run that ends with a non-zero status has created no output directory and
\* written no output file
C3_NoOutputOnFailure == exit_status = "1" => fs = NoFiles

\* C3 witness: --month selects no row of a table that has rows, and the run ended
\* with status 1 and nothing written
C3_Witness ==
    /\ exit_status = "1"
    /\ Truthy(input.month)
    /\ stderr = "No transactions found for " \o input.month \o "."
    /\ Len(input.csv.rows) > 0
    /\ fs = NoFiles

\* C4: when any row has an unparseable date or an unparseable or missing amount, the
\* run never gets to categorize, aggregate or report a row, drops no row, and ends
\* with status 1, whatever --month is
C4_AllOrNothing ==
    Defective =>
        /\ pc \in {"load_configs", "read_csv", "parse_dates", "clean_description",
                   "parse_amounts", "exited"}
        /\ pc = "exited" => exit_status = "1"
        /\ Len(df.rows) \in {0, Len(input.csv.rows)}
        /\ totals = NoTotals
        /\ fs = NoFiles
        /\ stdout = <<>>

\* C4 witness: --month 2024-01, a valid January row, the only defective row is a
\* February row with an unparseable amount, and the run ended on it
C4_Witness ==
    /\ pc = "exited"
    /\ stderr = "Some amounts could not be parsed as numbers."
    /\ input.month = "2024-01"
    /\ \E i \in DOMAIN input.csv.rows :
          ~DefectiveRow(input.csv.rows[i]) /\ i \in Retained
    /\ \A i \in DOMAIN input.csv.rows :
          DefectiveRow(input.csv.rows[i]) => i \notin Retained

\* C5: on a successful run total income is the sum of the positive amounts of the
\* retained rows, total expense the negated sum of their negative amounts (so never
\* negative), savings their difference; the retained rows are those of the --month
\* month, or all rows
C5_Totals ==
    AfterAggregate =>
        /\ Len(df.rows) = Cardinality(Retained)
        /\ totals.total_income = SetSum({i \in Retained : Signed[i] > 0}, Signed)
        /\ totals.total_expense = 0 - SetSum({i \in Retained : Signed[i] < 0}, Signed)
        /\ totals.total_expense >= 0
        /\ totals.savings = totals.total_income - totals.total_expense

\* C5 witness: a successful --month run with income, where a row with a non-zero
\* amount lies outside the month
C5_Witness ==
    /\ exit_status = "0"
    /\ input.month = "2024-01"
    /\ totals.total_income > 0
    /\ \E i \in DOMAIN input.csv.rows : i \notin Retained /\ Signed[i] # 0

\* C6: with total income 0 the savings rate is 0 whatever the expense is and the run
\* goes on to status 0; the rate is savings / income * 100 only when income > 0, and
\* no rate has a zero divisor
C6_ZeroIncome ==
    AfterAggregate =>
        /\ totals.savings_rate.den # 0
        /\ totals.total_income > 0 =>
              totals.savings_rate =
                  [num |-> totals.savings * 100, den |-> totals.total_income]
        /\ totals.total_income = 0 =>
              /\ totals.savings_rate.num = 0
              /\ exit_status # "1"
              /\ pc = "exited" \/ ENABLED Next

\* C6 witness: a run that ended with status 0 with no income and some expense
C6_Witness ==
    /\ exit_status = "0"
    /\ totals.total_income = 0
    /\ totals.total_expense > 0
    /\ totals.savings_rate.num = 0

\* C7: from the categorization stage on, every row has a category that is a label of
\* the rule set or "uncategorized" and a type, the type is income, expense or neutral
\* as the amount after --invert is positive, negative or zero, and the row is a row
\* of the CSV with that amount
C7_CategoryAndType ==
    AfterCategorize =>
        \A i \in DOMAIN df.rows :
            LET r == df.rows[i]
            IN  /\ r.category \in {cat_rules[k].cat : k \in DOMAIN cat_rules}
                                    \cup {"uncategorized"}
                /\ ~r.amount.nan
                /\ r.type = "income" <=> r.amount.v > 0
                /\ r.type = "expense" <=> r.amount.v < 0
                /\ r.type = "neutral" <=> r.amount.v = 0
                /\ \E j \in DOMAIN input.csv.rows :
                      /\ r.amount.v = Signed[j]
                      /\ r.description = Strip(input.csv.rows[j].description)

\* C7 witness: a row of category income whose type is expense (a payroll row under
\* --invert), and a row with amount 0 of type neutral
C7_Witness ==
    /\ AfterCategorize
    /\ \E i \in DOMAIN df.rows : df.rows[i].category = "income" /\ df.rows[i].type = "expense"
    /\ \E i \in DOMAIN df.rows : df.rows[i].amount.v = 0 /\ df.rows[i].type = "neutral"

\* what `yaml.safe_load(f) or {}` gives for a file that exists
Parsed(file) == IF file.null THEN <<>> ELSE file.doc

Loaded == pc \notin {"idle", "load_configs"}

\* C8 as stated: a present file is loaded exactly, and no value outside the files is
\* used in the run: category rules and currency come only from the files
C8_OnlyFromFiles ==
    Loaded =>
        /\ input.files.categories.exists =>
              cat_rules = Parsed(input.files.categories)
        /\ input.files.config.exists =>
              /\ cfg = Parsed(input.files.config)
              /\ "currency" \in DOMAIN Parsed(input.files.config)
              /\ currency = Parsed(input.files.config).currency

\* C8 amended: a present file is loaded exactly as parsed (an empty document as the
\* empty mapping) and never merged with the default document, which is used only
\* when the file is absent; the currency is the loaded mapping's currency, or "USD"
\* when it has none
C8_NoMerge ==
    Loaded =>
        /\ cat_rules = IF input.files.categories.exists
                       THEN Parsed(input.files.categories) ELSE default_categories
        /\ cfg = IF input.files.config.exists
                 THEN Parsed(input.files.config) ELSE default_config
        /\ currency = IF "currency" \in DOMAIN cfg THEN cfg.currency ELSE "USD"

\* C8 witness: both files exist, the config file has no currency, and the run uses
\* the file's rules and the currency "USD"
C8_Witness ==
    /\ Loaded
    /\ input.files.categories.exists
    /\ cat_rules = CustomRules
    /\ input.files.config.exists
    /\ "income_keywords" \in DOMAIN cfg
    /\ "currency" \notin DOMAIN cfg
    /\ currency = "USD"

\* the retained rows of type expense in category c
ExpenseRowsOf(c) ==
    {i \in DOMAIN df.rows : df.rows[i].category = c /\ df.rows[i].amount.v < 0}

\* C9: the per-category expense table has exactly one entry for each category with
\* a retained expense row and none for any other; each entry is the negated sum of
\* that category's expense rows only, so it is positive, and the entries sum to
\* total expense
C9_ExpenseTable ==
    AfterAggregate =>
        LET e == totals.expenses_by_cat
            cats == {c \in {df.rows[i].category : i \in DOMAIN df.rows} :
                        ExpenseRowsOf(c) # {}}
        IN  /\ {e[k].category : k \in DOMAIN e} = cats
            /\ Len(e) = Cardinality(cats)
            /\ \A k \in DOMAIN e :
                  /\ e[k].amount = 0 - SetSum(ExpenseRowsOf(e[k].category),
                                              [i \in DOMAIN df.rows |-> df.rows[i].amount.v])
                  /\ e[k].amount > 0
            /\ SetSum(DOMAIN e, [k \in DOMAIN e |-> e[k].amount]) = totals.total_expense
            /\ fs.category_expenses.written => fs.category_expenses.content = e

\* C9 witness: a category with an expense row and an income row, whose entry is the
\* expense row's magnitude
C9_Witness ==
    /\ exit_status = "0"
    /\ \E i, j \in DOMAIN df.rows :
          /\ df.rows[i].category = df.rows[j].category
          /\ df.rows[i].type = "expense"
          /\ df.rows[j].type = "income"
          /\ \E k \in DOMAIN totals.expenses_by_cat :
                /\ totals.expenses_by_cat[k].category = df.rows[i].category
                /\ totals.expenses_by_cat[k].amount = 0 - df.rows[i].amount.v

HasExpenseRow == \E i \in DOMAIN df.rows : df.rows[i].type = "expense"

\* C10: a run that has passed validation goes on to status 0; it writes the chart
\* if and only if a retained row has type expense, and with or without the chart it
\* writes the two tables and the report and prints the summary
C10_ChartIffExpense ==
    /\ pc \in {"aggregate", "make_dirs", "write_tables", "write_report", "plot",
               "print_summary"} => (exit_status = "running" /\ ENABLED Next)
    /\ fs.plot.written => (AfterAggregate /\ HasExpenseRow)
    /\ exit_status = "0" =>
          /\ fs.plot.written <=> HasExpenseRow
          /\ fs.dirs = {"outputs", "plots"}
          /\ fs.transactions.written
          /\ fs.category_expenses.written
          /\ fs.report.written
          /\ Len(stdout) = 2

\* C10 witness: a run with rows and no expense row that ended with status 0, the
\* tables and the report written and no chart
C10_Witness ==
    /\ exit_status = "0"
    /\ Len(df.rows) > 0
    /\ ~HasExpenseRow
    /\ ~fs.plot.written
    /\ fs.report.written

====
